---- MODULE Spec2Model ----
(***************************************************************************)
(* Model of src/Stepper.js: the Stepper class that drives a 2-, 4- or      *)
(* 5-wire stepper motor through GPIO pins.                                 *)
(*                                                                         *)
(* One Stepper object is modelled.  Its fields keep the names of the       *)
(* source.  A call of step() with a non-zero argument blocks in a busy     *)
(* loop; every iteration of that loop reads the clock (micros()), so each  *)
(* iteration is one action (stepPoll) whose input is the clock reading.    *)
(* The clock is micro-seconds of process uptime and never decreases.       *)
(*                                                                         *)
(* step_delay is a JavaScript number obtained by two floating divisions.   *)
(* It is kept as an exact fraction num/den (den > 0), as +Infinity         *)
(* (division by 0) or as undefined (never assigned); the comparison of     *)
(* line 154 is evaluated on that fraction by cross-multiplication, and is  *)
(* false for undefined (NaN) and for +Infinity, as in JavaScript.          *)
(***************************************************************************)
EXTENDS Integers, Sequences, FiniteSets, TLC

\* ------------------------------------------------------------------ bounds
\* largest |steps_to_move| passed to step()
MaxSteps == 3
\* the clock readings are multiples of ClockQuantum micro-seconds ...
ClockQuantum == 1000000
\* ... up to MaxClockTicks quanta
MaxClockTicks == 10
\* largest number of quanta between two consecutive readings of the clock
MaxAdvance == 2

\* largest |steps_to_move| passed to step() when pin writes can fail
FaultMaxSteps == 2
\* largest number_of_steps and largest speed of the setSpeed specification
MaxRevSteps == 200
MaxRpm == 60

\* which of motor_pin_3, motor_pin_4, motor_pin_5 the constructor is given
CtorChoices ==
    {<<FALSE, FALSE, FALSE>>, <<TRUE, FALSE, FALSE>>, <<TRUE, TRUE, FALSE>>,
     <<FALSE, FALSE, TRUE>>, <<TRUE, TRUE, TRUE>>}
\* number_of_steps given to the constructor
StepsChoices == {3, 8, 10}
\* the drivers whose pin writes can fail, and the calls made on them
FaultStepsChoices == {8}
FaultCtorChoices ==
    {<<FALSE, FALSE, FALSE>>, <<TRUE, TRUE, FALSE>>, <<FALSE, FALSE, TRUE>>,
     <<TRUE, TRUE, TRUE>>}
FaultSpeedChoices == {5, 10}
\* speed given to setSpeed (revolutions per minute), invalid ones included
SpeedChoices == {-1, 0, 5, 10}

\* --------------------------------------------------------------- constants
HIGH == 1
LOW == 0
\* 60 * 1000 * 1000 of setSpeed: micro-seconds per minute
MicrosPerMinute == 60 * 1000 * 1000

MaxClock == MaxClockTicks * ClockQuantum
AllPins == 1..5
Abs(x) == IF x < 0 THEN -x ELSE x

\* ------------------------------------------------------------------- state
VARIABLES
    ctor_args,       \* <<motor_pin_3, motor_pin_4, motor_pin_5>> given (# null)?
    pin_count,       \* this.pin_count
    motor_pins,      \* the k for which this.motor_pin_k holds a Gpio object
    number_of_steps, \* this.number_of_steps
    step_number,     \* this.step_number
    direction,       \* this.direction
    last_step_time,  \* this.last_step_time
    step_delay,      \* this.step_delay
    steps_left,      \* local of step()
    pc,              \* "idle", or "polling" inside the while loop of step()
    clock,           \* latest value returned by micros()
    levels,          \* level last written to each Gpio (AllPins -> {LOW, HIGH})
    call,            \* the latest step() call: argument, outcome, and the
                     \* step_number it started from
    done,            \* step transitions performed by the latest step() call
    batches,         \* how many of them wrote at least one pin
    batch,           \* the pin writes of the latest step transition, in order
    stepped_at,      \* clock reading of the latest step transition (0: none)
    write_error,     \* pin whose writeSync threw in the latest step transition
                     \* (0: none did)
    prev             \* the step() call before the latest one, if it returned

vars == <<ctor_args, pin_count, motor_pins, number_of_steps, step_number,
          direction, last_step_time, step_delay, steps_left, pc, clock,
          levels, call, done, batches, batch, stepped_at, write_error,
          prev>>

\* ------------------------------------------------------------- step_delay
Undefined == [kind |-> "undefined", num |-> 0, den |-> 1]
Infinity == [kind |-> "inf", num |-> 1, den |-> 1]
Num(n, d) == [kind |-> "num", num |-> n, den |-> d]

\* a / b for a number a = num/den and an integer b, as JavaScript divides
Divide(a, b) ==
    IF a.kind # "num" THEN a
    ELSE IF b = 0 THEN (IF a.num = 0 THEN Undefined ELSE Infinity)
    ELSE IF b > 0 THEN Num(a.num, a.den * b)
    ELSE Num(-a.num, a.den * (-b))

\* setSpeed, line 133: 60 * 1000 * 1000 / this.number_of_steps / speed
SpeedDelayMillis(nsteps, speed) ==
    Divide(Divide(Num(60 * 1000, 1), nsteps), speed)
SpeedDelay(nsteps, speed) ==
    Divide(Divide(Num(MicrosPerMinute, 1), nsteps), speed)

\* step, line 154: now - this.last_step_time >= this.step_delay
DelayPassedIgnored(now, last, delay) == delay.kind = "num"
DelayPassedUndefinedIsZero(now, last, delay) ==
    IF delay.kind = "undefined" THEN now - last >= 0
    ELSE /\ delay.kind = "num"
         /\ (now - last) * delay.den >= delay.num
DelayPassed(now, last, delay) ==
    /\ delay.kind = "num"
    /\ (now - last) * delay.den >= delay.num

\* ------------------------------------------------------------ constructor
\* constructor, lines 104-119: pin_count and the Gpio objects created
CtorPinCount(p3, p4, p5) ==
    IF p5 THEN 5 ELSE IF p3 /\ p4 THEN 4 ELSE 2

CtorPins(p3, p4, p5) ==
    {1, 2} \cup (IF p3 /\ p4 THEN {3, 4} ELSE {}) \cup (IF p5 THEN {5} ELSE {})

\* ------------------------------------------------------------------ step()
\* step, line 143
StepsLeft(steps_to_move) == Abs(steps_to_move)

\* step, lines 146-147
NewDirectionZeroForward(dir, steps_to_move) ==
    IF steps_to_move >= 0 THEN 1 ELSE 0
NewDirectionKeptOnNegative(dir, steps_to_move) ==
    IF steps_to_move > 0 THEN 1 ELSE dir
NewDirection(dir, steps_to_move) ==
    IF steps_to_move > 0 THEN 1
    ELSE IF steps_to_move < 0 THEN 0
    ELSE dir

\* step, lines 161-176: the new step_number
AdvanceNoWrap(dir, sn, nsteps) ==
    IF dir = 1 THEN sn + 1 ELSE sn - 1
AdvanceReverseOff(dir, sn, nsteps) ==
    IF dir = 1 THEN (IF sn + 1 = nsteps THEN 0 ELSE sn + 1)
    ELSE (IF sn <= 1 THEN nsteps - 1 ELSE sn - 1)
Advance(dir, sn, nsteps) ==
    IF dir = 1
    THEN (IF sn + 1 = nsteps THEN 0 ELSE sn + 1)
    ELSE (IF sn = 0 THEN nsteps ELSE sn) - 1

\* step, lines 182-189: the argument passed to stepMotor
ThisStepMod4(pins, sn) == IF pins = 5 THEN sn % 10 ELSE sn % 4
ThisStepMod8(pins, sn) == sn % 8
ThisStep(pins, sn) == IF pins = 5 THEN sn % 10 ELSE sn % 8

\* --------------------------------------------------------------- stepMotor
W(pin, value) == <<pin, value>>

\* stepMotor, lines 199-220
stepMotor2(thisStep) ==
    CASE thisStep = 0 -> <<W(1, LOW), W(2, HIGH)>>
      [] thisStep = 1 -> <<W(1, HIGH), W(2, HIGH)>>
      [] thisStep = 2 -> <<W(1, HIGH), W(2, LOW)>>
      [] thisStep = 3 -> <<W(1, LOW), W(2, LOW)>>
      [] OTHER -> <<>>

\* stepMotor, lines 221-274
stepMotor4FullStep(thisStep) ==
    CASE thisStep % 4 = 0 -> <<W(1, HIGH), W(2, LOW), W(3, HIGH), W(4, LOW)>>
      [] thisStep % 4 = 1 -> <<W(1, LOW), W(2, HIGH), W(3, HIGH), W(4, LOW)>>
      [] thisStep % 4 = 2 -> <<W(1, LOW), W(2, HIGH), W(3, LOW), W(4, HIGH)>>
      [] thisStep % 4 = 3 -> <<W(1, HIGH), W(2, LOW), W(3, LOW), W(4, HIGH)>>
stepMotor4(thisStep) ==
    CASE thisStep = 0 -> <<W(1, HIGH), W(2, LOW), W(3, LOW), W(4, LOW)>>
      [] thisStep = 1 -> <<W(1, HIGH), W(2, HIGH), W(3, LOW), W(4, LOW)>>
      [] thisStep = 2 -> <<W(1, LOW), W(2, HIGH), W(3, LOW), W(4, LOW)>>
      [] thisStep = 3 -> <<W(1, LOW), W(2, HIGH), W(3, HIGH), W(4, LOW)>>
      [] thisStep = 4 -> <<W(1, LOW), W(2, LOW), W(3, HIGH), W(4, LOW)>>
      [] thisStep = 5 -> <<W(1, LOW), W(2, LOW), W(3, HIGH), W(4, HIGH)>>
      [] thisStep = 6 -> <<W(1, LOW), W(2, LOW), W(3, LOW), W(4, HIGH)>>
      [] thisStep = 7 -> <<W(1, HIGH), W(2, LOW), W(3, LOW), W(4, HIGH)>>
      [] OTHER -> <<>>

\* stepMotor, lines 275-350
stepMotor5(thisStep) ==
    CASE thisStep = 0 ->
           <<W(1, LOW), W(2, HIGH), W(3, HIGH), W(4, LOW), W(5, HIGH)>>
      [] thisStep = 1 ->
           <<W(1, LOW), W(2, HIGH), W(3, LOW), W(4, LOW), W(5, HIGH)>>
      [] thisStep = 2 ->
           <<W(1, LOW), W(2, HIGH), W(3, LOW), W(4, HIGH), W(5, HIGH)>>
      [] thisStep = 3 ->
           <<W(1, LOW), W(2, HIGH), W(3, LOW), W(4, HIGH), W(5, LOW)>>
      [] thisStep = 4 ->
           <<W(1, HIGH), W(2, HIGH), W(3, LOW), W(4, HIGH), W(5, LOW)>>
      [] thisStep = 5 ->
           <<W(1, HIGH), W(2, LOW), W(3, LOW), W(4, HIGH), W(5, LOW)>>
      [] thisStep = 6 ->
           <<W(1, HIGH), W(2, LOW), W(3, HIGH), W(4, HIGH), W(5, LOW)>>
      [] thisStep = 7 ->
           <<W(1, HIGH), W(2, LOW), W(3, HIGH), W(4, LOW), W(5, LOW)>>
      [] thisStep = 8 ->
           <<W(1, HIGH), W(2, LOW), W(3, HIGH), W(4, LOW), W(5, HIGH)>>
      [] thisStep = 9 ->
           <<W(1, LOW), W(2, LOW), W(3, HIGH), W(4, LOW), W(5, HIGH)>>
      [] OTHER -> <<>>

\* stepMotor, lines 197-351: the digitalWrite calls it makes, in order
stepMotor(pins, thisStep) ==
    IF pins = 2 THEN stepMotor2(thisStep)
    ELSE IF pins = 4 THEN stepMotor4(thisStep)
    ELSE IF pins = 5 THEN stepMotor5(thisStep)
    ELSE <<>>

\* digitalWrite, lines 356-359: pin.writeSync(value) throws a TypeError when
\* this.motor_pin_k was never assigned; the writes before it have been made.
\* Index of the first write that throws, 0 when none does.
FirstThrow(writes, owned) ==
    IF \E i \in 1..Len(writes) : writes[i][1] \notin owned
    THEN CHOOSE i \in 1..Len(writes) :
           /\ writes[i][1] \notin owned
           /\ \A j \in 1..(i - 1) : writes[j][1] \in owned
    ELSE 0

\* pin.writeSync (line 358) of the write of index `fail` is reached and
\* throws an I/O error (fail = 0: no writeSync throws)
IoFails(writes, owned, fail) ==
    /\ fail \in 1..Len(writes)
    /\ FirstThrow(writes, owned) = 0 \/ fail < FirstThrow(writes, owned)

\* digitalWrite, lines 356-359, has no try/catch: index of the first write
\* of stepMotor that throws, whatever the error, 0 when none does
ThrowAtSwallowed(writes, owned, fail) == FirstThrow(writes, owned)
ThrowAt(writes, owned, fail) ==
    IF IoFails(writes, owned, fail) THEN fail ELSE FirstThrow(writes, owned)

\* the writes made before the one of index `at` throws (at = 0: all)
Performed(writes, at) ==
    IF at = 0 THEN writes ELSE SubSeq(writes, 1, at - 1)

RECURSIVE ApplyWrites(_, _)
ApplyWrites(lv, writes) ==
    IF writes = <<>> THEN lv
    ELSE ApplyWrites([lv EXCEPT ![Head(writes)[1]] = Head(writes)[2]],
                     Tail(writes))

\* ------------------------------------------------------------ call history
NoCall == [arg |-> 0, outcome |-> "none", start |-> 0]
NoPrev == [valid |-> FALSE, arg |-> 0, start |-> 0]

\* -------------------------------------------------------------------- Init
\* the state after new Stepper(number_of_steps, pin1, pin2, pin3, pin4, pin5)
constructor(nsteps, args) ==
    /\ ctor_args = args
    /\ number_of_steps = nsteps
    /\ pin_count = CtorPinCount(ctor_args[1], ctor_args[2], ctor_args[3])
    /\ motor_pins = CtorPins(ctor_args[1], ctor_args[2], ctor_args[3])
    /\ step_number = 0
    /\ direction = 0
    /\ last_step_time = 0
    /\ step_delay = Undefined
    /\ steps_left = 0
    /\ pc = "idle"
    /\ clock = 0
    /\ levels = [p \in AllPins |-> LOW]
    /\ call = NoCall
    /\ done = 0
    /\ batches = 0
    /\ batch = <<>>
    /\ stepped_at = 0
    /\ write_error = 0
    /\ prev = NoPrev

Init ==
    \E nsteps \in StepsChoices, args \in CtorChoices : constructor(nsteps, args)

\* ----------------------------------------------------------------- actions
\* setSpeed(speed), lines 130-134
setSpeedResetsTimer(speed) ==
    /\ pc = "idle"
    /\ step_delay' = SpeedDelay(number_of_steps, speed)
    /\ last_step_time' = 0
    /\ UNCHANGED <<ctor_args, pin_count, motor_pins, number_of_steps,
                   step_number, direction, steps_left, pc, clock, levels,
                   call, done, batches, batch, stepped_at, write_error,
                   prev>>
setSpeed(speed) ==
    /\ pc = "idle"
    /\ step_delay' = SpeedDelay(number_of_steps, speed)
    /\ UNCHANGED <<ctor_args, pin_count, motor_pins, number_of_steps,
                   step_number, direction, last_step_time, steps_left, pc,
                   clock, levels, call, done, batches, batch, stepped_at,
                   write_error, prev>>

\* A call whose delay is a positive number needs at most
\* step_delay + MaxAdvance * ClockQuantum micro-seconds per step; it is started
\* only when the bounded clock of the model can cover that.
Horizon(n) ==
    (step_delay.kind = "num" /\ step_delay.num > 0) =>
        n * (step_delay.num + MaxAdvance * ClockQuantum * step_delay.den)
            <= (MaxClock - clock) * step_delay.den

\* the completed step() call that the call now entered follows
PrevOf(c) ==
    IF c.outcome = "returned"
    THEN [valid |-> TRUE, arg |-> c.arg, start |-> c.start]
    ELSE NoPrev

\* step(steps_to_move), lines 140-149: entry, up to the first loop test
step(steps_to_move) ==
    /\ pc = "idle"
    /\ Horizon(Abs(steps_to_move))
    /\ steps_left' = StepsLeft(steps_to_move)
    /\ direction' = NewDirection(direction, steps_to_move)
    /\ pc' = IF steps_left' > 0 THEN "polling" ELSE "idle"
    /\ call' = [arg |-> steps_to_move,
                outcome |-> IF steps_left' > 0 THEN "running" ELSE "returned",
                start |-> step_number]
    /\ prev' = PrevOf(call)
    /\ done' = 0
    /\ batches' = 0
    /\ UNCHANGED <<ctor_args, pin_count, motor_pins, number_of_steps,
                   step_number, last_step_time, step_delay, clock, levels,
                   batch, stepped_at, write_error>>

\* step, lines 151-191: one iteration of the while loop, reading `now`;
\* `fail` is the index of the write of this iteration whose writeSync throws
\* an I/O error (0: none)
stepPollIO(now, fail) ==
    /\ pc = "polling"
    /\ clock' = now
    /\ IF DelayPassed(now, last_step_time, step_delay)
       THEN LET sn == Advance(direction, step_number, number_of_steps)
                writes == stepMotor(pin_count, ThisStep(pin_count, sn))
                at == ThrowAt(writes, motor_pins, fail)
                made == Performed(writes, at)
                io == IoFails(writes, motor_pins, fail)
            IN /\ last_step_time' = now
               /\ step_number' = sn
               /\ steps_left' = steps_left - 1
               /\ levels' = ApplyWrites(levels, made)
               /\ batch' = made
               /\ batches' = batches + (IF made # <<>> THEN 1 ELSE 0)
               /\ done' = done + 1
               /\ stepped_at' = now
               /\ write_error' = IF io THEN writes[fail][1] ELSE 0
               /\ pc' = IF at # 0 \/ steps_left' = 0 THEN "idle"
                        ELSE "polling"
               /\ call' = [call EXCEPT !.outcome =
                             IF at # 0 /\ at = fail THEN "IoError"
                             ELSE IF at # 0 THEN "TypeError"
                             ELSE IF steps_left' = 0 THEN "returned"
                             ELSE "running"]
       ELSE UNCHANGED <<last_step_time, step_number, steps_left, levels,
                        batch, batches, done, stepped_at, write_error, pc,
                        call>>
    /\ UNCHANGED <<ctor_args, pin_count, motor_pins, number_of_steps,
                   direction, step_delay, prev>>

\* the iteration when every writeSync succeeds
stepPoll(now) == stepPollIO(now, 0)

\* micros(), lines 365-368: the readings the clock can give next
Readings == {clock + k * ClockQuantum : k \in 0..MaxAdvance}

Poll == \E now \in Readings : now <= MaxClock /\ stepPoll(now)

Next ==
    \/ \E speed \in SpeedChoices : setSpeed(speed)
    \/ \E steps_to_move \in (-MaxSteps)..MaxSteps : step(steps_to_move)
    \/ Poll

Spec == Init /\ [][Next]_vars

\* The loop of step() runs without yielding: an iteration that can change the
\* state (the clock moves on, or a step is made) is eventually taken.
LiveSpec == Spec /\ WF_vars(Poll)

\* an iteration of the loop of step() in which a writeSync throws
PollFault ==
    \E now \in Readings, fail \in AllPins :
        /\ now <= MaxClock
        /\ DelayPassed(now, last_step_time, step_delay)
        /\ IoFails(stepMotor(pin_count,
                             ThisStep(pin_count,
                                      Advance(direction, step_number,
                                              number_of_steps))),
                   motor_pins, fail)
        /\ stepPollIO(now, fail)

\* the driver on outputs whose writes can fail
FaultInit ==
    \E nsteps \in FaultStepsChoices, args \in FaultCtorChoices :
        constructor(nsteps, args)
FaultNext ==
    \/ \E speed \in FaultSpeedChoices : setSpeed(speed)
    \/ \E steps_to_move \in (-FaultMaxSteps)..FaultMaxSteps :
           step(steps_to_move)
    \/ Poll
    \/ PollFault
FaultSpec == FaultInit /\ [][FaultNext]_vars

\* setSpeed alone, on drivers of 1..MaxRevSteps steps per revolution and for
\* the speeds 1..MaxRpm
SpeedInit ==
    \E nsteps \in 1..MaxRevSteps : constructor(nsteps, <<TRUE, TRUE, FALSE>>)
SpeedNext == \E speed \in 1..MaxRpm : setSpeed(speed)
SpeedSpec == SpeedInit /\ [][SpeedNext]_vars

\* ======================================================================
\* Properties
\* ======================================================================
\* a step transition is a step of the model that increments `done`
Transition == done' = done + 1
\* step_delay is the delay of a speed > 0
SpeedIsPositive == step_delay.kind = "num" /\ step_delay.num > 0
\* the driver owns exactly the outputs 1..pin_count
WellFormed == motor_pins = 1..pin_count
\* pins handed to the constructor (pins 1 and 2 always are)
GivenPins(args) ==
    2 + (IF args[1] THEN 1 ELSE 0) + (IF args[2] THEN 1 ELSE 0)
      + (IF args[3] THEN 1 ELSE 0)

\* the pattern tables as the specification lists them, one row per index
SpecTable2 ==
    <<<<LOW, HIGH>>, <<HIGH, HIGH>>, <<HIGH, LOW>>, <<LOW, LOW>>>>
SpecTable4 ==
    <<<<HIGH, LOW, LOW, LOW>>, <<HIGH, HIGH, LOW, LOW>>,
      <<LOW, HIGH, LOW, LOW>>, <<LOW, HIGH, HIGH, LOW>>,
      <<LOW, LOW, HIGH, LOW>>, <<LOW, LOW, HIGH, HIGH>>,
      <<LOW, LOW, LOW, HIGH>>, <<HIGH, LOW, LOW, HIGH>>>>
\* columns C0..C4 of the header comment, lines 51-61
SpecTable5 ==
    <<<<0, 1, 1, 0, 1>>, <<0, 1, 0, 0, 1>>, <<0, 1, 0, 1, 1>>,
      <<0, 1, 0, 1, 0>>, <<1, 1, 0, 1, 0>>, <<1, 0, 0, 1, 0>>,
      <<1, 0, 1, 1, 0>>, <<1, 0, 1, 0, 0>>, <<1, 0, 1, 0, 1>>,
      <<0, 0, 1, 0, 1>>>>
SequenceLength(pins) == IF pins = 5 THEN 10 ELSE 8
\* the row the specification gives for a position; 2-wire indices 4..7
\* repeat indices 0..3
SpecRow(pins, position) ==
    LET i == position % SequenceLength(pins)
    IN IF pins = 2 THEN SpecTable2[(i % 4) + 1]
       ELSE IF pins = 4 THEN SpecTable4[i + 1]
       ELSE SpecTable5[i + 1]
\* one write per output 1..pins, in pin order, of the levels of `row`
WritesOf(row) == [k \in 1..Len(row) |-> <<k, row[k]>>]
\* the levels now on outputs 1..pins
LevelsOn(pins) == [k \in 1..pins |-> levels[k]]

\* ---------------------------------------------------------------- C1
\* C1: after every step transition and after every return of step(), for
\* every wire count and every number_of_steps > 0, step_number is an integer
\* in [0, number_of_steps).
PositionInRange ==
    /\ step_number \in Int
    /\ 0 <= step_number
    /\ step_number < number_of_steps

\* a reverse step from position 0 has wrapped to number_of_steps - 1
PositionWrapped ==
    /\ done = 1
    /\ call.arg < 0
    /\ call.start = 0
    /\ step_number = number_of_steps - 1

\* ---------------------------------------------------------------- C2
\* C2: a call step(n) with |n| = K performs exactly K step transitions
\* before it returns, and each of them is observable as one batch of
\* output writes.
ExactlyKBatches ==
    (call.outcome = "returned" /\ WellFormed /\ SpeedIsPositive) =>
        /\ done = Abs(call.arg)
        /\ batches = Abs(call.arg)

\* ---------------------------------------------------------------- C3
\* C3: every step transition writes exactly one level to each of the
\* pin_count outputs: the row of the pattern table at index
\* step_number mod sequence length (8 for 2 and 4 wires, 10 for 5 wires),
\* where for 2 wires indices 4..7 write the rows of indices 0..3.
EveryTransitionWritesRow ==
    [][(Transition /\ WellFormed /\ SpeedIsPositive) =>
          /\ batch' = WritesOf(SpecRow(pin_count, step_number'))
          /\ [k \in 1..pin_count |-> levels'[k]]
               = SpecRow(pin_count, step_number')]_vars

\* ---------------------------------------------------------------- C4
\* C4: with a non-decreasing clock, every step transition happens at a clock
\* reading that exceeds the reading of the previous transition of the driver
\* (0 when there was none) by at least the step_delay then in force, inside
\* one step() call and across step() calls.
DelayRespected ==
    [][Transition =>
          /\ clock' >= clock
          /\ step_delay.kind = "num"
          /\ (clock' - stepped_at) * step_delay.den >= step_delay.num]_vars

\* a call that follows a completed non-empty call has made its second
\* transition under a positive delay
DelayedSecondStep ==
    /\ done >= 2
    /\ step_delay.kind = "num"
    /\ step_delay.num > 0
    /\ stepped_at > 0
    /\ prev.valid
    /\ prev.arg # 0

\* ---------------------------------------------------------------- C5
\* C5: once setSpeed was called with a speed > 0, every call step(n) with
\* n # 0 eventually returns, and it returns with steps_left = 0.
EveryMoveReturns ==
    (call.outcome = "running" /\ SpeedIsPositive)
        ~> (call.outcome = "returned" /\ steps_left = 0)

\* ---------------------------------------------------------------- C6
\* C6: step(0) returns immediately, makes no pin write and no step
\* transition, and leaves step_number, direction, last_step_time and
\* step_delay unchanged.
MoveZeroIsNoOp ==
    [][step(0) =>
          /\ pc' = "idle"
          /\ call'.outcome = "returned"
          /\ done' = 0
          /\ UNCHANGED <<step_number, direction, last_step_time, step_delay,
                         levels, batch, stepped_at, clock>>]_vars

\* step(0) has returned on a driver whose previous call moved it in reverse
MoveZeroAfterReverse ==
    /\ call.arg = 0
    /\ call.outcome = "returned"
    /\ prev.valid
    /\ prev.arg < 0
    /\ direction = 0
    /\ step_number > 0

\* ---------------------------------------------------------------- C7
\* C7: step(n) followed by step(-n) leaves step_number where it was before
\* the first of the two calls, whenever number_of_steps > |n|.
RoundTrip ==
    (/\ prev.valid
     /\ call.outcome = "returned"
     /\ call.arg = -prev.arg
     /\ number_of_steps > Abs(call.arg)) => step_number = prev.start

\* a round trip of two steps that went through the wrap-around
RoundTripThroughWrap ==
    /\ prev.valid
    /\ call.outcome = "returned"
    /\ call.arg = -prev.arg
    /\ prev.arg = -2
    /\ prev.start = 1
    /\ number_of_steps > 2
    /\ step_number = 1

\* ---------------------------------------------------------------- C8
\* C8: setSpeed with a speed <= 0 fails and leaves step_delay as it was.
BadSpeedRejected ==
    [][(SpeedIsPositive /\ \E speed \in SpeedChoices :
                                 speed <= 0 /\ setSpeed(speed)) =>
          step_delay' = step_delay]_vars

\* ---------------------------------------------------------------- C9
\* C9: a driver exists only if the number of pins given is 2, 4 or 5 and
\* equals pin_count; pin_count equals the number of outputs the driver owns.
ConstructionChecked ==
    /\ GivenPins(ctor_args) \in {2, 4, 5}
    /\ pin_count = GivenPins(ctor_args)
    /\ pin_count = Cardinality(motor_pins)

ReverseStepWritesRow ==
    [][(Transition /\ direction = 0 /\ WellFormed /\ SpeedIsPositive) =>
          /\ step_number' = (IF step_number = 0 THEN number_of_steps - 1
                             ELSE step_number - 1)
          /\ batch' = WritesOf(SpecRow(pin_count, step_number'))
          /\ [k \in 1..pin_count |-> levels'[k]]
               = SpecRow(pin_count, step_number')
          /\ (pin_count = 4 /\ number_of_steps = 8 /\ step_number = 0) =>
                /\ step_number' = 7
                /\ [k \in 1..4 |-> levels'[k]] = <<HIGH, LOW, LOW, HIGH>>]_vars

\* ---------------------------------------------------------------- C12
\* C12: on a 5-wire driver the levels written to outputs 1..5 for pattern
\* index i (0..9) are columns C0..C4 of row i + 1 of the 5-phase table of the
\* header comment, and the index used is step_number mod 10.
FivePhaseTable ==
    [][(Transition /\ pin_count = 5 /\ WellFormed) =>
          /\ batch' = WritesOf(SpecTable5[(step_number' % 10) + 1])
          /\ [k \in 1..5 |-> levels'[k]] = SpecTable5[(step_number' % 10) + 1]
          /\ \A i \in 0..9 : stepMotor(5, i) = WritesOf(SpecTable5[i + 1])]_vars

\* the 5-wire driver has stepped to position 9 and shows row 10, 00101
FivePhaseLastRow ==
    /\ pin_count = 5
    /\ WellFormed
    /\ done >= 1
    /\ step_number = 9
    /\ LevelsOn(5) = <<0, 0, 1, 0, 1>>

\* ---------------------------------------------------------------- C13
\* C13: on a 4-wire driver the control signals written to C0..C3 on
\* successive forward steps are the rows of the four-row cycle 1010, 0110,
\* 0101, 1001 of the header comment (lines 63-69).
HeaderTable4 == {<<1, 0, 1, 0>>, <<0, 1, 1, 0>>, <<0, 1, 0, 1>>, <<1, 0, 0, 1>>}
ForwardStepsFollowHeaderCycle ==
    [][(Transition /\ pin_count = 4 /\ direction = 1 /\ SpeedIsPositive) =>
          [k \in 1..4 |-> levels'[k]] \in HeaderTable4]_vars

SetSpeedFrame ==
    [][(\E speed \in SpeedChoices : setSpeed(speed)) =>
          UNCHANGED <<step_number, direction, last_step_time, levels, batch,
                      batches, done, stepped_at, steps_left, pc>>]_vars

\* the delay now set is longer than the clock reading of the latest step
\* transition, so it was set after that transition
SpeedSetAfterStep ==
    /\ pc = "idle"
    /\ done >= 1
    /\ SpeedIsPositive
    /\ last_step_time = stepped_at
    /\ stepped_at > 0
    /\ stepped_at * step_delay.den < step_delay.num

\* ---------------------------------------------------------------- C16
\* C16: when a pin write fails during a step transition the failure reaches
\* the caller of step() at once: the later writes of the transition and the
\* remaining steps of the call are not made, and step_number and
\* last_step_time keep the values advanced for that transition.
WriteFailurePropagates ==
    [][(Transition /\ write_error' # 0) =>
          LET intended == stepMotor(pin_count,
                                    ThisStep(pin_count, step_number'))
          IN /\ call'.outcome = "IoError"
             /\ pc' = "idle"
             /\ steps_left' = steps_left - 1
             /\ step_number' = (IF direction = 1 THEN step_number + 1
                                ELSE step_number - 1 + number_of_steps)
                                  % number_of_steps
             /\ last_step_time' = clock'
             /\ Len(batch') < Len(intended)
             /\ batch' = SubSeq(intended, 1, Len(batch'))
             /\ intended[Len(batch') + 1][1] = write_error'
             /\ \A k \in AllPins :
                    levels'[k] = (IF \E i \in 1..Len(batch') : batch'[i][1] = k
                                  THEN intended[k][2] ELSE levels[k])]_vars

\* the write to pin 3 of a 4-wire driver failed in the first transition of a
\* call that had more steps to make
ThirdWriteFailed ==
    /\ pin_count = 4
    /\ write_error = 3
    /\ call.outcome = "IoError"
    /\ Len(batch) = 2
    /\ done = 1
    /\ steps_left >= 1
    /\ step_number # call.start
    /\ last_step_time = clock

\* ---------------------------------------------------------------- C17
\* C17: every step transition moves in the direction given by the sign of
\* the argument of the step() call that makes it: forward for a positive
\* argument, reverse for a negative one, whatever the direction was before
\* the call (the constructor's value, or one kept through step(0)).
DirectionFollowsSign ==
    [][Transition =>
          \/ /\ call.arg > 0
             /\ direction = 1
             /\ step_number' = (step_number + 1) % number_of_steps
          \/ /\ call.arg < 0
             /\ direction = 0
             /\ step_number'
                  = (step_number - 1 + number_of_steps) % number_of_steps]_vars

\* a reverse call made right after a forward call has made a step
ReverseAfterForward ==
    /\ prev.valid
    /\ prev.arg > 0
    /\ call.arg < 0
    /\ done = 1
    /\ call.start > 0
    /\ step_number = call.start - 1

NeverSetNeverSteps ==
    (step_delay = Undefined /\ call.outcome # "none" /\ call.arg # 0) =>
        /\ call.outcome = "running"
        /\ pc = "polling"
        /\ steps_left = Abs(call.arg)
        /\ done = 0
        /\ batch = <<>>
        /\ levels = [p \in AllPins |-> LOW]
        /\ step_number = 0
        /\ last_step_time = 0

\* the call is still polling when the clock has reached its last reading
StillPollingAtMaxClock ==
    /\ step_delay = Undefined
    /\ call.arg # 0
    /\ call.outcome = "running"
    /\ pc = "polling"
    /\ clock = MaxClock

====
